---- MODULE Spec2Model ----
(***************************************************************************)
(* The translation job scheduler of the language app: the RateLimiter and  *)
(* the TranslationQueueManager of app/queue/manager.py, the translations   *)
(* tables of app/persistence/translations.py and the SSE progress stream   *)
(* of app/routes/translation.py, as one state machine.                     *)
(*                                                                         *)
(* Threads: the pool's workers run _process_translation; the stream        *)
(* generators run on the event loop.  A step of the model is one access to *)
(* shared state (a storage call, an assignment to the progress table, a    *)
(* step of the rate limiter) together with the local computation that      *)
(* follows it.                                                             *)
(***************************************************************************)
EXTENDS Integers, Sequences, FiniteSets, TLC

\* ------------------------------------------------------------------ bounds
MaxJobs == 2        \* translation ids the id generator can hand out
MaxStreams == 2     \* connections the server can hold open at a time
MaxDeletes == 1     \* DELETE requests served
MaxRestarts == 1    \* restarts of the server process
MinDelay == 2       \* RateLimiter._min_delay, in clock ticks
NumWorkers == 2     \* JOB_QUEUE_WORKERS
MaxCallers == 3     \* threads that call get_queue_manager
MaxCalls == 2       \* calls of get_queue_manager each of them makes

JobIds == 1..MaxJobs
Workers == 1..NumWorkers
Streams == 1..MaxStreams
Callers == 1..MaxCallers

\* ------------------------------------------------------------------ values
NULL == "<null>"          \* SQL NULL / Python None / a missing dict key
NoJob == [status |-> "<absent>"]   \* no row with this id
NoEntry == [status |-> "<absent>"] \* no key with this id in the progress table
NoLock == 0               \* RateLimiter._lock is free
NoManager == 0            \* _queue_manager is None

\* A segment is a string, kept as the sequence of its characters' classes.
Han1 == <<"han">>
Han2 == <<"han", "han">>
Comma == <<"punct">>

\* should_skip_segment: true iff the segment holds no CJK ideograph.
should_skip_segment(segment) ==
    ~ \E i \in 1..Len(segment) : segment[i] = "han"

\* to_pinyin: empty for a skippable segment, else one syllable per character.
to_pinyin(segment) ==
    IF should_skip_segment(segment) THEN ""
    ELSE IF Len(segment) = 1 THEN "py" ELSE "py py"

\* A text is the sequence of its characters' classes: "han", "punct", and the
\* whitespace characters Space and Newline.
Space == "sp"
Newline == "nl"
IsSpace(c) == c \in {Space, Newline}

\* text.split(sep): the pieces between the separators, empty pieces kept
RECURSIVE split(_, _)
split(text, sep) ==
    IF \A i \in 1..Len(text) : text[i] # sep THEN <<text>>
    ELSE LET i == CHOOSE i \in 1..Len(text) :
                      /\ text[i] = sep
                      /\ \A j \in 1..(i - 1) : text[j] # sep IN
         <<SubSeq(text, 1, i - 1)>> \o split(SubSeq(text, i + 1, Len(text)), sep)

\* line.lstrip(), line.strip()
RECURSIVE lstrip(_)
lstrip(line) ==
    IF line # <<>> /\ IsSpace(Head(line)) THEN lstrip(Tail(line)) ELSE line

RECURSIVE rstrip(_)
rstrip(line) ==
    IF line # <<>> /\ IsSpace(line[Len(line)])
    THEN rstrip(SubSeq(line, 1, Len(line) - 1))
    ELSE line

strip(line) == rstrip(lstrip(line))

\* the look-ahead loop of split_into_paragraphs: one newline for each blank
\* line from lines[j] on (lines numbered from 1)
RECURSIVE LookAhead(_, _)
LookAhead(lines, j) ==
    IF j <= Len(lines) /\ strip(lines[j]) = <<>>
    THEN <<Newline>> \o LookAhead(lines, j + 1)
    ELSE <<>>

\* the for loop of split_into_paragraphs from lines[i] on
RECURSIVE ParagraphsFrom(_, _)
ParagraphsFrom(lines, i) ==
    IF i > Len(lines) THEN <<>>
    ELSE IF strip(lines[i]) = <<>> THEN ParagraphsFrom(lines, i + 1)
    ELSE << [content |-> strip(lines[i]),
             indent |-> SubSeq(lines[i], 1, Len(lines[i]) - Len(lstrip(lines[i]))),
             separator |-> IF i < Len(lines)
                           THEN <<Newline>> \o LookAhead(lines, i + 1)
                           ELSE <<>>] >>
         \o ParagraphsFrom(lines, i + 1)

split_into_paragraphs(text) ==
    IF text = <<>> THEN <<>> ELSE ParagraphsFrom(split(text, Newline), 1)

\* pipe.segment.acall(text = content).segments: a run of ideographs is one
\* word, any other character a segment of its own
RECURSIVE Segmenter(_)
Segmenter(content) ==
    IF content = <<>> THEN <<>>
    ELSE IF Head(content) # "han" THEN <<<<Head(content)>>>> \o Segmenter(Tail(content))
    ELSE LET rest == Segmenter(Tail(content)) IN
         IF rest # <<>> /\ Head(rest)[1] = "han"
         THEN <<<<"han">> \o Head(rest)>> \o Tail(rest)
         ELSE <<Han1>> \o rest

\* the input texts the clients submit
TextA == <<"han", "han", "punct", Newline, Space, Space, "han">>
TextB == <<"punct">>
Texts == {TextA, TextB}

\* what an exception raised by a collaborator prints as (str(e))
ExcMessages == {"", "boom"}

\* ------------------------------------------------------------------ state
VARIABLES
    translations,          \* table translations: id -> row, or NoJob
    paragraphs,            \* table translation_paragraphs: rows in index order
    segments,              \* table translation_segments: rows in index order
    used,                  \* ids create_translation has generated so far
    translation_progress,  \* manager._translation_progress: id -> entry, or NoEntry
    executor,              \* manager._executor: the work items not yet taken
    pool,                  \* manager._executor: its thread limit and shutdown flag
    worker,                \* the pool's threads: position and locals
    rl,                    \* manager._rate_limiter
    stream,                \* the generate() coroutines
    budget,                \* requests the environment may still make
    singleton              \* app.queue: _queue_manager, its lock, the callers

vars == <<translations, paragraphs, segments, used, translation_progress,
          executor, pool, worker, rl, stream, budget, singleton>>

\* translated counts the calls of pipe.translate.acall the execution made;
\* calls lists its calls of RateLimiter.wait and of the collaborators, in order.
IdleWorker ==
    [pc |-> "idle", job |-> 0, ret |-> "", text |-> <<>>, full |-> NULL,
     segs |-> <<>>, p |-> 0, g |-> 0, translated |-> 0, calls |-> <<>>,
     pinyin |-> "", english |-> "", exc |-> NULL]

\* The worker after one more call: of wait(), of full_translator.acall, of
\* pipe.segment.acall (arg: the paragraph) or of pipe.translate.acall (arg:
\* the segment's global index).
Called(wr, call, arg) == [wr EXCEPT !.calls = Append(@, [call |-> call, arg |-> arg])]

\* orphan: the dict a stream still holds after cleanup_progress popped it.
IdleStream ==
    [pc |-> "idle", job |-> 0, last_progress |-> 0, sent_start |-> FALSE,
     orphan |-> NoEntry, events |-> <<>>]

\* The entry submit_translation creates.
InitialEntry ==
    [status |-> "pending", current |-> 0, total |-> 0, results |-> <<>>,
     full_translation |-> NULL, error |-> NULL]

\* RateLimiter.__init__: _last_request = 0.0, far in the past of any clock.
\* since is the time elapsed since _last_request, saturated at MinDelay;
\* sleep is what is left of the lock holder's time.sleep; gap is the time
\* that lay between the last two values assigned to _last_request.
InitialLimiter == [lock |-> NoLock, since |-> MinDelay, sleep |-> 0, gap |-> MinDelay]

\* What the environment may still do: submissions (and the texts submitted),
\* stream requests (and how many connections the clients keep open at a
\* time), deletions, restarts of the server; and what the collaborators may
\* raise.
Clients(submits, conns, opens, deletes, restarts, texts, raises) ==
    [submits |-> submits, conns |-> conns, opens |-> opens, deletes |-> deletes,
     restarts |-> restarts, texts |-> texts, raises |-> raises, faults |-> 0]

\* The same, with a database that may fail (sqlite3.OperationalError, as
\* "database is locked") in the storage call of the failure handler, faults
\* times.
Faulty(clients, faults) == [clients EXCEPT !.faults = faults]

\* ThreadPoolExecutor(max_workers = max_workers)
NewPool(max_workers) == [max_workers |-> max_workers, shutdown |-> FALSE]

\* A thread that calls get_queue_manager: where it is in the call, the calls
\* it has still to make, the managers it has constructed and the values its
\* calls returned.
IdleCaller == [pc |-> "idle", calls |-> MaxCalls, built |-> 0, returned |-> {}]

\* app.queue after import: _queue_manager = None, _queue_manager_lock free;
\* constructed counts the calls of TranslationQueueManager(), and a manager
\* is known by its place in that count.
Imported ==
    [queue_manager |-> NoManager, queue_manager_lock |-> NoLock, constructed |-> 0,
     caller |-> [t \in Callers |-> IdleCaller]]

\* app.queue after the first call of get_queue_manager
Built == [Imported EXCEPT !.queue_manager = 1, !.constructed = 1]

\* The state after construction of the manager with a pool of max_workers
\* threads, the tables empty.
StartedWith(clients, max_workers) ==
    /\ translations = [j \in JobIds |-> NoJob]
    /\ paragraphs = <<>>
    /\ segments = <<>>
    /\ used = {}
    /\ translation_progress = [j \in JobIds |-> NoEntry]
    /\ executor = <<>>
    /\ pool = NewPool(max_workers)
    /\ worker = [w \in Workers |-> IdleWorker]
    /\ rl = InitialLimiter
    /\ stream = [s \in Streams |-> IdleStream]
    /\ budget = clients
    /\ singleton = Built

\* The manager as get_queue_manager builds it: max_workers = JOB_QUEUE_WORKERS.
Started(clients) == StartedWith(clients, NumWorkers)

\* ------------------------------------------------------------ persistence
\* create_translation: INSERT ... VALUES (id, ..., 'pending', ..., input_text).
create_translation(T, id, input_text) ==
    [T EXCEPT ![id] = [status |-> "pending", input_text |-> input_text,
                       full_translation |-> NULL, error_message |-> NULL]]

\* An id generator that can repeat itself.
RepeatedIds == JobIds

\* uuid.uuid4().hex: an id no earlier call produced.
NewIds == JobIds \ used

\* get_translation: the row, or NoJob (None).
get_translation(T, id) == T[id]

\* update_translation_status: UPDATE translations SET status = ?,
\* error_message = ? WHERE id = ?  (no row: nothing changes).
update_translation_status(T, id, status, error_message) ==
    IF T[id] = NoJob THEN T
    ELSE [T EXCEPT ![id].status = status, ![id].error_message = error_message]

\* A completion that does not reach the table.
CompletionNotStored(T, id, full_translation) == T

\* complete_translation: UPDATE translations SET status = 'completed',
\* full_translation = ? WHERE id = ?
complete_translation(T, id, full_translation) ==
    IF T[id] = NoJob THEN T
    ELSE [T EXCEPT ![id].status = "completed",
                   ![id].full_translation = full_translation]

\* fail_translation
fail_translation(T, id, error_message) ==
    update_translation_status(T, id, "failed", error_message)

\* The tables' declarations are not part of the sources at hand.  The rows
\* of translation_paragraphs and translation_segments reference their
\* translation (delete_translation relies on ON DELETE CASCADE), so an INSERT
\* for a translation that has no row fails; no index makes
\* (translation_id, paragraph_idx) or (translation_id, paragraph_idx, seg_idx)
\* unique.
ForeignKeyOk(T, id) == T[id] # NoJob
UniqueIndexOnPositions == FALSE

ParagraphInsertOk(T, P, id, idx) ==
    /\ ForeignKeyOk(T, id)
    /\ UniqueIndexOnPositions =>
         ~ \E i \in 1..Len(P) : P[i].translation_id = id /\ P[i].paragraph_idx = idx

SegmentInsertOk(T, S, id, pidx, sidx) ==
    /\ ForeignKeyOk(T, id)
    /\ UniqueIndexOnPositions =>
         ~ \E i \in 1..Len(S) : /\ S[i].translation_id = id
                                /\ S[i].paragraph_idx = pidx
                                /\ S[i].seg_idx = sidx

\* The tables are kept in the order of their index columns, rows with equal
\* columns in insert order: the order of every SELECT ... ORDER BY of the code.
KeyBefore(a, b) ==
    \/ a[1] < b[1]
    \/ a[1] = b[1] /\ a[2] < b[2]
    \/ a[1] = b[1] /\ a[2] = b[2] /\ a[3] < b[3]

RowKey(row) ==
    <<row.translation_id, row.paragraph_idx,
      IF "seg_idx" \in DOMAIN row THEN row.seg_idx ELSE 0>>

RECURSIVE InsertRow(_, _)
InsertRow(rows, row) ==
    IF rows = <<>> THEN <<row>>
    ELSE IF KeyBefore(RowKey(row), RowKey(Head(rows))) THEN <<row>> \o rows
    ELSE <<Head(rows)>> \o InsertRow(Tail(rows), row)

\* A paragraph save that stores no row.
NoParagraphSaved(P, id, idx, indent, separator) == P

\* save_translation_paragraph
save_translation_paragraph(P, id, idx, indent, separator) ==
    InsertRow(P, [translation_id |-> id, paragraph_idx |-> idx,
                  indent |-> indent, separator |-> separator])

\* A segment save that stores no row.
NoSegmentSaved(S, id, pidx, sidx, text, pinyin, english) == S

\* save_translation_segment
save_translation_segment(S, id, pidx, sidx, text, pinyin, english) ==
    InsertRow(S, [translation_id |-> id, paragraph_idx |-> pidx, seg_idx |-> sidx,
                  segment_text |-> text, pinyin |-> pinyin, english |-> english])

\* delete_translation: the row and, by cascade, its paragraphs and segments.
OfOther(id, row) == row.translation_id # id
KeepOthers(rows, id) ==
    LET Keep(row) == OfOther(id, row) IN SelectSeq(rows, Keep)

\* ------------------------------------------------------------ rate limiter
\* A wait() that never sleeps.
NoSleep(elapsed) == 0

\* wait(): elapsed = now - _last_request; sleep(min_delay - elapsed) when
\* elapsed < min_delay.
SleepTime(elapsed) == IF elapsed < MinDelay THEN MinDelay - elapsed ELSE 0

Min(a, b) == IF a < b THEN a ELSE b
Max(a, b) == IF a > b THEN a ELSE b

\* One tick of the clock while a thread sleeps in wait().
Tick ==
    /\ rl.sleep > 0
    /\ rl' = [rl EXCEPT !.since = Min(rl.since + 1, MinDelay),
                        !.sleep = rl.sleep - 1]
    /\ UNCHANGED <<translations, paragraphs, segments, used,
                   translation_progress, executor, pool, worker, stream, budget,
                   singleton>>

\* wait(), first half: take _lock; now = time.time(), any time not before
\* the last one read; start the sleep.
RLEnter(w) ==
    /\ worker[w].pc = "wait"
    /\ rl.lock = NoLock
    /\ \E elapsed \in rl.since..MinDelay :
         rl' = [rl EXCEPT !.lock = w, !.since = elapsed,
                          !.sleep = SleepTime(elapsed)]
    /\ worker' = [worker EXCEPT ![w] = Called([@ EXCEPT !.pc = "sleeping"], "wait", 0)]
    /\ UNCHANGED <<translations, paragraphs, segments, used,
                   translation_progress, executor, pool, stream, budget,
                   singleton>>

\* ------------------------------------------------------------------ manager
\* A manager whose lock is also held across the worker's wait().
LockedAcrossWait == {"append", "mirror_error", "sleeping"}

\* manager._lock is held across the two assignments of a worker's update.
LockedPcs == {"append", "mirror_error"}
ManagerLockFree == \A w \in Workers : worker[w].pc \notin LockedPcs

\* A pool that drops the execution when another one is waiting.
RejectWhenQueued(queue, id) == IF queue = <<>> THEN <<id>> ELSE queue

\* start_processing: self._executor.submit(self._process_translation, id, cb)
start_processing(queue, id) == Append(queue, id)

\* A submit_translation that also hands the translation to the pool.
SubmitAndStart(id, input_text) ==
    /\ translations' = create_translation(translations, id, input_text)
    /\ used' = used \cup {id}
    /\ translation_progress' = [translation_progress EXCEPT ![id] = InitialEntry]
    /\ budget' = [budget EXCEPT !.submits = @ - 1]
    /\ executor' = start_processing(executor, id)
    /\ UNCHANGED <<paragraphs, segments, pool, worker, rl, stream, singleton>>

\* submit_translation: create the row, then the progress entry.
submit_translation(id, input_text) ==
    /\ translations' = create_translation(translations, id, input_text)
    /\ used' = used \cup {id}
    /\ translation_progress' = [translation_progress EXCEPT ![id] = InitialEntry]
    /\ budget' = [budget EXCEPT !.submits = @ - 1]
    /\ UNCHANGED <<paragraphs, segments, executor, pool, worker, rl, stream, singleton>>

Submit ==
    /\ ManagerLockFree
    /\ budget.submits > 0
    /\ \E id \in NewIds : \E input_text \in budget.texts :
         submit_translation(id, input_text)

\* sum(len(p["segments"]) for p in all_paragraph_segments)
RECURSIVE total_segments(_)
total_segments(all) ==
    IF all = <<>> THEN 0 ELSE Len(Head(all)) + total_segments(Tail(all))

\* The (para_idx, seg_idx, segment) triples in the order the two nested loops
\* of _process_translation visit them.
RECURSIVE LoopOrder(_, _)
LoopOrder(all, para_idx) ==
    IF all = <<>> THEN <<>>
    ELSE [i \in 1..Len(Head(all)) |->
            [paragraph_idx |-> para_idx, seg_idx |-> i - 1, segment |-> Head(all)[i]]]
         \o LoopOrder(Tail(all), para_idx + 1)

\* A loop that sends every segment to the translator.
NextSegmentTranslatesAll(wr) ==
    LET order == LoopOrder(wr.segs, 0) IN
    IF wr.g >= Len(order) THEN [wr EXCEPT !.pc = "complete"]
    ELSE [wr EXCEPT !.pc = "wait", !.ret = "translate"]

\* A loop that sends no segment to the translator.
NextSegmentSkipsAll(wr) ==
    LET order == LoopOrder(wr.segs, 0) IN
    IF wr.g >= Len(order) THEN [wr EXCEPT !.pc = "complete"]
    ELSE [wr EXCEPT !.pc = "save_seg", !.pinyin = "", !.english = ""]

\* Top of the segment loop for a worker that has handled g segments: leave
\* the loops, or classify the next segment.
NextSegment(wr) ==
    LET order == LoopOrder(wr.segs, 0) IN
    IF wr.g >= Len(order) THEN [wr EXCEPT !.pc = "complete"]
    ELSE IF should_skip_segment(order[wr.g + 1].segment)
         THEN [wr EXCEPT !.pc = "save_seg", !.pinyin = "", !.english = ""]
         ELSE [wr EXCEPT !.pc = "wait", !.ret = "translate"]

\* A pool thread takes the oldest work item and enters _process_translation:
\* update_translation_status(translation_id, "processing").
\* (Idle threads are interchangeable: the lowest-numbered one takes it.)
MarkProcessing(w) ==
    /\ worker[w].pc = "idle"
    /\ \A v \in Workers : v < w => worker[v].pc # "idle"
    /\ w <= pool.max_workers
    /\ executor # <<>>
    /\ executor' = Tail(executor)
    /\ pool' = pool
    /\ translations' = update_translation_status(translations, Head(executor),
                                                 "processing", NULL)
    /\ worker' = [worker EXCEPT ![w] = [IdleWorker EXCEPT !.pc = "mirror",
                                                         !.job = Head(executor)]]
    /\ UNCHANGED <<paragraphs, segments, used, translation_progress,
                   rl, stream, budget, singleton>>

\* A mirror that creates the entry when the id is not a key (setdefault).
MirrorRecreates(w) ==
    LET id == worker[w].job IN
    /\ worker[w].pc = "mirror"
    /\ ManagerLockFree
    /\ translation_progress' =
         IF translation_progress[id] = NoEntry
         THEN [translation_progress EXCEPT ![id] =
                   [InitialEntry EXCEPT !.status = "processing"]]
         ELSE [translation_progress EXCEPT ![id].status = "processing"]
    /\ worker' = [worker EXCEPT ![w].pc = "load"]
    /\ UNCHANGED <<translations, paragraphs, segments, used, executor, pool,
                   rl, stream, budget, singleton>>

\* with self._lock: progress[id]["status"] = "processing" (if the id is a key)
MirrorProcessing(w) ==
    LET id == worker[w].job IN
    /\ worker[w].pc = "mirror"
    /\ ManagerLockFree
    /\ translation_progress' =
         IF translation_progress[id] = NoEntry THEN translation_progress
         ELSE [translation_progress EXCEPT ![id].status = "processing"]
    /\ worker' = [worker EXCEPT ![w].pc = "load"]
    /\ UNCHANGED <<translations, paragraphs, segments, used, executor, pool,
                   rl, stream, budget, singleton>>

\* translation = get_translation(id); raise ValueError when it is None;
\* paragraphs = split_into_paragraphs(translation.input_text)
LoadTranslation(w) ==
    LET row == get_translation(translations, worker[w].job) IN
    /\ worker[w].pc = "load"
    /\ worker' = [worker EXCEPT ![w] =
         IF row = NoJob
         THEN [@ EXCEPT !.pc = "fail", !.exc = "Translation not found"]
         ELSE [@ EXCEPT !.pc = "wait", !.ret = "full",
                        !.text = split_into_paragraphs(row.input_text)]]
    /\ UNCHANGED <<translations, paragraphs, segments, used,
                   translation_progress, executor, pool, rl, stream, budget,
                   singleton>>

\* What a collaborator call leaves the worker with when it raises (ret keeps
\* which call it was).
Raised(wr) == {[wr EXCEPT !.pc = "fail", !.exc = msg] : msg \in budget.raises}

\* full_translator.acall(text = input_text): a result, or an exception.
FullTranslate(wr) ==
    LET called == Called(wr, "full_translate", 0) IN
    {IF wr.text = <<>>
     THEN [called EXCEPT !.pc = "total", !.ret = "", !.full = "full translation"]
     ELSE [called EXCEPT !.pc = "wait", !.ret = "segment", !.full = "full translation"]}
    \cup Raised(called)

\* One segmentation call for the whole text in place of one per paragraph.
SegmentWholeText(wr) ==
    LET called == Called(wr, "segment", 0) IN
    {[called EXCEPT !.segs = [i \in 1..Len(wr.text) |-> Segmenter(wr.text[i].content)],
                    !.p = Len(wr.text), !.pc = "total", !.ret = ""]}
    \cup Raised(called)

\* pipe.segment.acall(text = para["content"]) for the next paragraph.
SegmentParagraph(wr) ==
    LET called == Called(wr, "segment", wr.p) IN
    {[called EXCEPT !.segs = Append(wr.segs, Segmenter(wr.text[wr.p + 1].content)),
                    !.p = wr.p + 1,
                    !.pc = IF wr.p + 1 < Len(wr.text) THEN "wait" ELSE "total",
                    !.ret = IF wr.p + 1 < Len(wr.text) THEN "segment" ELSE ""]}
    \cup Raised(called)

\* with self._lock: progress[id]["total"] = total_segments
PublishTotal(w) ==
    LET wr == worker[w] IN
    /\ wr.pc = "total"
    /\ ManagerLockFree
    /\ translation_progress' =
         IF translation_progress[wr.job] = NoEntry THEN translation_progress
         ELSE [translation_progress EXCEPT ![wr.job].total = total_segments(wr.segs)]
    /\ worker' = [worker EXCEPT ![w] =
         IF wr.segs = <<>> THEN NextSegment([wr EXCEPT !.p = 0])
         ELSE [wr EXCEPT !.pc = "save_para", !.p = 0]]
    /\ UNCHANGED <<translations, paragraphs, segments, used, executor, pool,
                   rl, stream, budget, singleton>>

\* save_translation_paragraph for paragraph p; after the last one the
\* segment loops start.
SaveParagraph(w) ==
    LET wr == worker[w]
        para == wr.text[wr.p + 1] IN
    /\ wr.pc = "save_para"
    /\ IF ParagraphInsertOk(translations, paragraphs, wr.job, wr.p)
       THEN /\ paragraphs' = save_translation_paragraph(paragraphs, wr.job, wr.p,
                                                        para.indent, para.separator)
            /\ worker' = [worker EXCEPT ![w] =
                 IF wr.p + 1 < Len(wr.segs) THEN [wr EXCEPT !.p = wr.p + 1]
                 ELSE NextSegment([wr EXCEPT !.p = 0])]
       ELSE /\ paragraphs' = paragraphs
            /\ worker' = [worker EXCEPT ![w].pc = "fail",
                                        ![w].exc = "constraint failed"]
    /\ UNCHANGED <<translations, segments, used, translation_progress, executor, pool,
                   rl, stream, budget, singleton>>

\* pinyin = to_pinyin(segment); pipe.translate.acall(...): a gloss, or an
\* exception.
TranslateSegment(wr) ==
    LET called == Called([wr EXCEPT !.translated = @ + 1], "translate", wr.g) IN
    {[called EXCEPT !.pc = "save_seg", !.ret = "",
                    !.pinyin = to_pinyin(LoopOrder(wr.segs, 0)[wr.g + 1].segment),
                    !.english = "gloss"]}
    \cup Raised(called)

\* The collaborator call a wait() stands before.
CallAfterWait(wr) ==
    CASE wr.ret = "full" -> FullTranslate(wr)
      [] wr.ret = "segment" -> SegmentParagraph(wr)
      [] wr.ret = "translate" -> TranslateSegment(wr)

\* wait(), second half: the sleep is over; _last_request = time.time();
\* release _lock and return; the worker makes the call it waited for.
RLLeave(w) ==
    /\ worker[w].pc = "sleeping"
    /\ rl.lock = w
    /\ rl.sleep = 0
    /\ rl' = [rl EXCEPT !.lock = NoLock, !.since = 0, !.gap = rl.since]
    /\ \E after \in CallAfterWait(worker[w]) : worker' = [worker EXCEPT ![w] = after]
    /\ UNCHANGED <<translations, paragraphs, segments, used,
                   translation_progress, executor, pool, stream, budget,
                   singleton>>

\* save_translation_segment for the current segment.
SaveSegment(w) ==
    LET wr == worker[w]
        item == LoopOrder(wr.segs, 0)[wr.g + 1] IN
    /\ wr.pc = "save_seg"
    /\ IF SegmentInsertOk(translations, segments, wr.job,
                          item.paragraph_idx, item.seg_idx)
       THEN /\ segments' = save_translation_segment(segments, wr.job,
                             item.paragraph_idx, item.seg_idx, item.segment,
                             wr.pinyin, wr.english)
            /\ worker' = [worker EXCEPT ![w].pc = "progress"]
       ELSE /\ segments' = segments
            /\ worker' = [worker EXCEPT ![w].pc = "fail",
                                        ![w].exc = "constraint failed"]
    /\ UNCHANGED <<translations, paragraphs, used, translation_progress, executor, pool,
                   rl, stream, budget, singleton>>

\* SegmentResult(paragraph_idx, seg_idx, global_idx, segment, pinyin, english)
SegmentResult(item, global_idx, pinyin, english) ==
    [paragraph_idx |-> item.paragraph_idx, seg_idx |-> item.seg_idx,
     global_idx |-> global_idx, segment |-> item.segment,
     pinyin |-> pinyin, english |-> english]

\* global_idx += 1; with self._lock: progress[id]["current"] = global_idx
\* (if the id is a key; the lock is kept for the append that follows).
SetCurrent(w) ==
    LET wr == worker[w] IN
    /\ wr.pc = "progress"
    /\ ManagerLockFree
    /\ IF translation_progress[wr.job] = NoEntry
       THEN /\ translation_progress' = translation_progress
            /\ worker' = [worker EXCEPT ![w] = NextSegment([wr EXCEPT !.g = wr.g + 1])]
       ELSE /\ translation_progress' =
                 [translation_progress EXCEPT ![wr.job].current = wr.g + 1]
            /\ worker' = [worker EXCEPT ![w].pc = "append", ![w].g = wr.g + 1]
    /\ UNCHANGED <<translations, paragraphs, segments, used, executor, pool,
                   rl, stream, budget, singleton>>

\* progress[id]["results"].append(result); release the lock; the progress
\* callback (which only posts to a queue nobody reads); next segment.
AppendResult(w) ==
    LET wr == worker[w]
        item == LoopOrder(wr.segs, 0)[wr.g]
        result == SegmentResult(item, wr.g - 1, wr.pinyin, wr.english) IN
    /\ wr.pc = "append"
    /\ translation_progress' =
         [translation_progress EXCEPT ![wr.job].results = Append(@, result)]
    /\ worker' = [worker EXCEPT ![w] = NextSegment(wr)]
    /\ UNCHANGED <<translations, paragraphs, segments, used, executor, pool,
                   rl, stream, budget, singleton>>

\* complete_translation(id, full_translation)
CompleteTranslation(w) ==
    /\ worker[w].pc = "complete"
    /\ translations' = complete_translation(translations, worker[w].job,
                                            worker[w].full)
    /\ worker' = [worker EXCEPT ![w].pc = "mirror_complete"]
    /\ UNCHANGED <<paragraphs, segments, used, translation_progress, executor, pool,
                   rl, stream, budget, singleton>>

\* with self._lock: status = "completed", full_translation = ...; the worker
\* function returns.
MirrorComplete(w) ==
    LET wr == worker[w] IN
    /\ wr.pc = "mirror_complete"
    /\ ManagerLockFree
    /\ translation_progress' =
         IF translation_progress[wr.job] = NoEntry THEN translation_progress
         ELSE [translation_progress EXCEPT ![wr.job].status = "completed",
                                           ![wr.job].full_translation = wr.full]
    /\ worker' = [worker EXCEPT ![w] = IdleWorker]
    /\ UNCHANGED <<translations, paragraphs, segments, used, executor, pool,
                   rl, stream, budget, singleton>>

\* Whether the UPDATE of fail_translation raises: the exception then leaves
\* the except block before the mirror, and _process_translation with it.
StorageFaults == IF budget.faults > 0 THEN {FALSE, TRUE} ELSE {FALSE}

\* except Exception as e: fail_translation(id, str(e))
FailTranslation(w) ==
    /\ worker[w].pc = "fail"
    /\ \E fault \in StorageFaults :
         IF fault
         THEN /\ translations' = translations
              /\ worker' = [worker EXCEPT ![w] = IdleWorker]
              /\ budget' = [budget EXCEPT !.faults = @ - 1]
         ELSE /\ translations' = fail_translation(translations, worker[w].job,
                                                  worker[w].exc)
              /\ worker' = [worker EXCEPT ![w].pc = "mirror_fail"]
              /\ budget' = budget
    /\ UNCHANGED <<paragraphs, segments, used, translation_progress, executor, pool,
                   rl, stream, singleton>>

\* with self._lock: progress[id]["status"] = "failed" (if the id is a key; the
\* lock is kept for the assignment of "error" that follows).
MirrorFail(w) ==
    LET wr == worker[w] IN
    /\ wr.pc = "mirror_fail"
    /\ ManagerLockFree
    /\ IF translation_progress[wr.job] = NoEntry
       THEN /\ translation_progress' = translation_progress
            /\ worker' = [worker EXCEPT ![w].pc = "raise"]
       ELSE /\ translation_progress' =
                 [translation_progress EXCEPT ![wr.job].status = "failed"]
            /\ worker' = [worker EXCEPT ![w].pc = "mirror_error"]
    /\ UNCHANGED <<translations, paragraphs, segments, used, executor, pool,
                   rl, stream, budget, singleton>>

\* progress[id]["error"] = str(e); release the lock.
MirrorError(w) ==
    LET wr == worker[w] IN
    /\ wr.pc = "mirror_error"
    /\ translation_progress' = [translation_progress EXCEPT ![wr.job].error = wr.exc]
    /\ worker' = [worker EXCEPT ![w].pc = "raise"]
    /\ UNCHANGED <<translations, paragraphs, segments, used, executor, pool,
                   rl, stream, budget, singleton>>

\* raise: the exception leaves _process_translation (the pool keeps it in the
\* future nobody reads); the thread is free again.
Reraise(w) ==
    /\ worker[w].pc = "raise"
    /\ worker' = [worker EXCEPT ![w] = IdleWorker]
    /\ UNCHANGED <<translations, paragraphs, segments, used,
                   translation_progress, executor, pool, rl, stream, budget,
                   singleton>>

\* A cleanup that empties the whole table (clear() in place of pop).
ClearProgress(table, id) == [j \in DOMAIN table |-> NoEntry]

\* cleanup_progress: self._translation_progress.pop(id, None)
cleanup_progress(table, id) == [table EXCEPT ![id] = NoEntry]

\* A shutdown that cancels the pending work items (cancel_futures = True).
ShutdownCancelFutures(p, queue) ==
    [pool |-> [p EXCEPT !.shutdown = TRUE], queue |-> <<>>]

\* shutdown(wait): self._executor.shutdown(wait = wait).  The executor sets
\* its shutdown flag, after which submit raises RuntimeError; it cancels no
\* pending work item (cancel_futures is not passed), so its threads go on
\* taking the items that are queued.
shutdown(p, queue) == [pool |-> [p EXCEPT !.shutdown = TRUE], queue |-> queue]

\* manager.shutdown(wait = False), called from outside the pool.
Shutdown ==
    /\ ~ pool.shutdown
    /\ used # {}
    /\ pool' = shutdown(pool, executor).pool
    /\ executor' = shutdown(pool, executor).queue
    /\ UNCHANGED <<translations, paragraphs, segments, used, translation_progress,
                   worker, rl, stream, budget, singleton>>

\* ------------------------------------------------------------ environment
\* DELETE /api/translations/{id}: delete_translation.
Delete ==
    /\ budget.deletes > 0
    /\ \E id \in JobIds :
         /\ translations[id] # NoJob
         /\ translations' = [translations EXCEPT ![id] = NoJob]
         /\ paragraphs' = KeepOthers(paragraphs, id)
         /\ segments' = KeepOthers(segments, id)
    /\ budget' = [budget EXCEPT !.deletes = @ - 1]
    /\ UNCHANGED <<used, translation_progress, executor, pool, worker, rl, stream, singleton>>

\* The server process ends and a new one starts: the tables stay, the
\* manager (pool, limiter, progress table) is new, open streams are gone.
Restart ==
    /\ budget.restarts > 0
    /\ used # {}
    /\ budget' = [budget EXCEPT !.restarts = @ - 1]
    /\ translation_progress' = [j \in JobIds |-> NoEntry]
    /\ executor' = <<>>
    /\ pool' = NewPool(pool.max_workers)
    /\ worker' = [w \in Workers |-> IdleWorker]
    /\ rl' = InitialLimiter
    /\ stream' = [s \in Streams |->
         IF stream[s].pc \in {"idle", "done", "closed"} THEN stream[s]
         ELSE [stream[s] EXCEPT !.pc = "closed", !.orphan = NoEntry]]
    /\ UNCHANGED <<translations, paragraphs, segments, used, singleton>>

\* ------------------------------------------------------------------ replay
\* SELECT * FROM translation_paragraphs WHERE translation_id = ?
\* ORDER BY paragraph_idx   (and the same of translation_segments,
\* ORDER BY paragraph_idx, seg_idx)
RowsOf(rows, id) ==
    LET Mine(row) == row.translation_id = id IN SelectSeq(rows, Mine)

\* para_map[row["paragraph_idx"]] = para: of several paragraph rows with one
\* index, the last one read is the one the map keeps.
InParaMap(prows, i) ==
    ~ \E k \in (i + 1)..Len(prows) :
        prows[k].paragraph_idx = prows[i].paragraph_idx

\* the {segment, pinyin, english} dicts of the segment rows with this index
RECURSIVE TranslationsOf(_, _)
TranslationsOf(srows, paragraph_idx) ==
    IF srows = <<>> THEN <<>>
    ELSE LET row == Head(srows)
             rest == TranslationsOf(Tail(srows), paragraph_idx) IN
         IF row.paragraph_idx = paragraph_idx
         THEN << [segment |-> row.segment_text, pinyin |-> row.pinyin,
                  english |-> row.english] >> \o rest
         ELSE rest

\* get_translation_with_results: NoJob (None), or the row with its paragraphs,
\* each holding the segments appended to it through para_map.
get_translation_with_results(T, P, S, id) ==
    IF get_translation(T, id) = NoJob THEN NoJob
    ELSE LET prows == RowsOf(P, id)
             srows == RowsOf(S, id) IN
         [status |-> "<found>",
          translation |-> get_translation(T, id),
          paragraphs |-> [i \in 1..Len(prows) |->
             [paragraph_idx |-> prows[i].paragraph_idx,
              indent |-> prows[i].indent,
              separator |-> prows[i].separator,
              translations |-> IF InParaMap(prows, i)
                               THEN TranslationsOf(srows, prows[i].paragraph_idx)
                               ELSE <<>>]]]

\* ------------------------------------------------------------------ events
ErrorEvent(message) == [type |-> "error", message |-> message]

\* translation.error_message or 'Translation failed'
StoredMessage(row) ==
    IF row.error_message = NULL \/ row.error_message = ""
    THEN "Translation failed" ELSE row.error_message

\* progress.get('error', 'Translation failed')
MirroredMessage(entry) ==
    IF entry.error = NULL THEN "Translation failed" ELSE entry.error

CompleteEvent(result) ==
    [type |-> "complete", paragraphs |-> result.paragraphs,
     fullTranslation |-> result.translation.full_translation]

\* sum(len(p["translations"]) for p in result.paragraphs)
RECURSIVE total_translations(_)
total_translations(paras) ==
    IF paras = <<>> THEN 0
    ELSE Len(Head(paras).translations) + total_translations(Tail(paras))

ReplayStartEvent(result) ==
    [type |-> "start", total |-> total_translations(result.paragraphs),
     paragraphs |-> [i \in 1..Len(result.paragraphs) |->
        [segment_count |-> Len(result.paragraphs[i].translations),
         indent |-> result.paragraphs[i].indent,
         separator |-> result.paragraphs[i].separator]],
     fullTranslation |-> result.translation.full_translation]

\* A replay that numbers its results from one.
RECURSIVE ReplayProgressFromOne(_, _, _, _)
ReplayProgressFromOne(paras, para_idx, global_idx, total) ==
    IF paras = <<>> THEN <<>>
    ELSE LET ts == Head(paras).translations IN
         [i \in 1..Len(ts) |->
            [type |-> "progress", current |-> global_idx + i, total |-> total,
             result |-> [segment |-> ts[i].segment, pinyin |-> ts[i].pinyin,
                         english |-> ts[i].english, index |-> global_idx + i,
                         paragraph_index |-> para_idx]]]
         \o ReplayProgressFromOne(Tail(paras), para_idx + 1,
                                  global_idx + Len(ts), total)

\* the progress events of the replay: the nested enumerate loops
RECURSIVE ReplayProgress(_, _, _, _)
ReplayProgress(paras, para_idx, global_idx, total) ==
    IF paras = <<>> THEN <<>>
    ELSE LET ts == Head(paras).translations IN
         [i \in 1..Len(ts) |->
            [type |-> "progress", current |-> global_idx + i, total |-> total,
             result |-> [segment |-> ts[i].segment, pinyin |-> ts[i].pinyin,
                         english |-> ts[i].english, index |-> global_idx + i - 1,
                         paragraph_index |-> para_idx]]]
         \o ReplayProgress(Tail(paras), para_idx + 1, global_idx + Len(ts), total)

ReplayEvents(result) ==
    <<ReplayStartEvent(result)>>
    \o ReplayProgress(result.paragraphs, 0, 0, total_translations(result.paragraphs))
    \o <<CompleteEvent(result)>>

LiveStartEvent(total) == [type |-> "start", total |-> total, paragraphs |-> <<>>]

\* for i in range(last_progress, current): if i < len(results): yield ...
LiveProgress(entry, last_progress) ==
    LET hi == Min(entry.current, Len(entry.results))
        n == Max(hi - last_progress, 0) IN
    [k \in 1..n |->
       LET i == last_progress + k - 1
           seg == entry.results[i + 1] IN
       [type |-> "progress", current |-> i + 1, total |-> entry.total,
        result |-> [segment |-> seg.segment, pinyin |-> seg.pinyin,
                    english |-> seg.english, index |-> seg.global_idx,
                    paragraph_index |-> seg.paragraph_idx]]]

\* ------------------------------------------------------------------ stream
\* get_progress: with self._lock: return self._translation_progress.get(id)
\* (the entry itself, not a copy).
get_progress(table, id) == table[id]

Emit(sr, events) == [sr EXCEPT !.events = @ \o events]

\* The dict a stream read with get_progress in this round of its loop: the
\* table's entry, or the popped dict it still holds.
Held(s) ==
    IF stream[s].orphan # NoEntry THEN stream[s].orphan
    ELSE translation_progress[stream[s].job]

\* generate(), up to the poll loop: get_translation, then by status.  A
\* pending translation is handed to start_processing before the first await.
\* (Free connections are interchangeable: the lowest-numbered one is used.)
FreeStream(s) == stream[s].pc \in {"idle", "done", "closed"}

\* A request that found no row answers "not found" and falls through to the
\* poll loop instead of returning.
AtOpenNoReturn(sr, row) ==
    IF row = NoJob
    THEN [Emit(sr, <<ErrorEvent("Translation not found")>>) EXCEPT !.pc = "poll"]
    ELSE IF row.status = "completed" THEN [sr EXCEPT !.pc = "replay"]
    ELSE IF row.status = "failed"
    THEN [Emit(sr, <<ErrorEvent(StoredMessage(row))>>) EXCEPT !.pc = "done"]
    ELSE [sr EXCEPT !.pc = "poll"]

\* Where generate() stands after its first look at the row.
AtOpen(sr, row) ==
    IF row = NoJob
    THEN [Emit(sr, <<ErrorEvent("Translation not found")>>) EXCEPT !.pc = "done"]
    ELSE IF row.status = "completed" THEN [sr EXCEPT !.pc = "replay"]
    ELSE IF row.status = "failed"
    THEN [Emit(sr, <<ErrorEvent(StoredMessage(row))>>) EXCEPT !.pc = "done"]
    ELSE [sr EXCEPT !.pc = "poll"]

\* A stream that starts processing whatever is not completed.
StartUnlessCompleted(row) == row # NoJob /\ row.status # "completed"

\* if translation.status == "pending": ... manager.start_processing(...)
ShouldStart(row) == row # NoJob /\ row.status = "pending"

OpenStream(s, id) ==
    LET row == get_translation(translations, id)
        sr == [IdleStream EXCEPT !.job = id] IN
    /\ FreeStream(s)
    /\ s <= budget.conns
    /\ \A t \in Streams : t < s => ~ FreeStream(t)
    /\ budget.opens > 0
    /\ budget' = [budget EXCEPT !.opens = @ - 1]
    /\ stream' = [stream EXCEPT ![s] =
         IF ShouldStart(row) /\ pool.shutdown THEN [sr EXCEPT !.pc = "closed"]
         ELSE AtOpen(sr, row)]
    /\ executor' = IF ShouldStart(row) /\ ~ pool.shutdown
                   THEN start_processing(executor, id)
                   ELSE executor
    /\ pool' = pool
    /\ UNCHANGED <<translations, paragraphs, segments, used,
                   translation_progress, worker, rl, singleton>>

\* The completed branch: get_translation_with_results, then every event.
Replay(s) ==
    LET result == get_translation_with_results(translations, paragraphs,
                                               segments, stream[s].job) IN
    /\ stream[s].pc = "replay"
    /\ stream' = [stream EXCEPT ![s] =
         IF result = NoJob THEN [@ EXCEPT !.pc = "done"]
         ELSE [Emit(@, ReplayEvents(result)) EXCEPT !.pc = "done"]]
    /\ UNCHANGED <<translations, paragraphs, segments, used,
                   translation_progress, executor, pool, worker, rl, budget,
                   singleton>>

\* Top of the loop: get_progress.  No entry: decide by the stored status, or
\* sleep and poll again.  An entry: the start event once total > 0.  (A
\* stream at "sleep" is in that asyncio.sleep(0.2); its step is the wake-up.)
Poll(s) ==
    LET sr == stream[s]
        entry == get_progress(translation_progress, sr.job)
        row == get_translation(translations, sr.job) IN
    /\ sr.pc \in {"poll", "sleep"}
    /\ sr.pc = "poll" => ManagerLockFree
    /\ stream' = [stream EXCEPT ![s] =
         IF sr.pc = "sleep" THEN [sr EXCEPT !.pc = "poll"]
         ELSE IF entry = NoEntry
         THEN IF row = NoJob
              THEN [Emit(sr, <<ErrorEvent("Translation not found")>>)
                      EXCEPT !.pc = "done"]
              ELSE IF row.status = "completed" THEN [sr EXCEPT !.pc = "complete"]
              ELSE IF row.status = "failed"
              THEN [Emit(sr, <<ErrorEvent(StoredMessage(row))>>) EXCEPT !.pc = "done"]
              ELSE [sr EXCEPT !.pc = "sleep"]
         ELSE IF ~ sr.sent_start /\ entry.total > 0
              THEN [Emit(sr, <<LiveStartEvent(entry.total)>>)
                      EXCEPT !.pc = "read", !.sent_start = TRUE]
              ELSE [sr EXCEPT !.pc = "read"]]
    /\ UNCHANGED <<translations, paragraphs, segments, used,
                   translation_progress, executor, pool, worker, rl, budget,
                   singleton>>

\* current = progress.get("current"); results = progress.get("results");
\* the progress events; last_progress = current.
ReadResults(s) ==
    LET sr == stream[s]
        entry == Held(s) IN
    /\ sr.pc = "read"
    /\ stream' = [stream EXCEPT ![s] =
         [Emit(sr, LiveProgress(entry, sr.last_progress))
            EXCEPT !.pc = "status", !.last_progress = entry.current]]
    /\ UNCHANGED <<translations, paragraphs, segments, used,
                   translation_progress, executor, pool, worker, rl, budget,
                   singleton>>

\* progress.get("status"): completed leaves the loop, failed ends the stream
\* with an error event, anything else polls again (after a sleep).
ReadStatus(s) ==
    LET sr == [stream[s] EXCEPT !.orphan = NoEntry]
        entry == Held(s) IN
    /\ stream[s].pc = "status"
    /\ stream' = [stream EXCEPT ![s] =
         IF entry.status = "completed" THEN [sr EXCEPT !.pc = "complete"]
         ELSE IF entry.status = "failed"
         THEN [Emit(sr, <<ErrorEvent(MirroredMessage(entry))>>) EXCEPT !.pc = "done"]
         ELSE [sr EXCEPT !.pc = "poll"]]
    /\ UNCHANGED <<translations, paragraphs, segments, used,
                   translation_progress, executor, pool, worker, rl, budget,
                   singleton>>

\* After the loop: get_translation_with_results and the complete event.
SendComplete(s) ==
    LET result == get_translation_with_results(translations, paragraphs,
                                               segments, stream[s].job) IN
    /\ stream[s].pc = "complete"
    /\ stream' = [stream EXCEPT ![s] =
         IF result = NoJob THEN [@ EXCEPT !.pc = "cleanup"]
         ELSE [Emit(@, <<CompleteEvent(result)>>) EXCEPT !.pc = "cleanup"]]
    /\ UNCHANGED <<translations, paragraphs, segments, used,
                   translation_progress, executor, pool, worker, rl, budget,
                   singleton>>

\* manager.cleanup_progress(id); the generator ends.  A stream that is in the
\* middle of a round on the same entry keeps the popped dict.
Cleanup(s) ==
    LET id == stream[s].job IN
    /\ stream[s].pc = "cleanup"
    /\ ManagerLockFree
    /\ translation_progress' = cleanup_progress(translation_progress, id)
    /\ stream' = [t \in Streams |->
         IF t = s THEN [stream[s] EXCEPT !.pc = "done"]
         ELSE IF /\ stream[t].job = id
                 /\ stream[t].pc \in {"read", "status"}
                 /\ stream[t].orphan = NoEntry
              THEN [stream[t] EXCEPT !.orphan = translation_progress[id]]
              ELSE stream[t]]
    /\ UNCHANGED <<translations, paragraphs, segments, used, executor, pool,
                   worker, rl, budget, singleton>>

\* --------------------------------------------------------------- behaviours
WorkerStep(w) ==
    \/ MarkProcessing(w) \/ MirrorProcessing(w)
    \/ LoadTranslation(w) \/ RLEnter(w) \/ RLLeave(w)
    \/ PublishTotal(w) \/ SaveParagraph(w) \/ SaveSegment(w) \/ SetCurrent(w)
    \/ AppendResult(w) \/ CompleteTranslation(w) \/ MirrorComplete(w)
    \/ FailTranslation(w) \/ MirrorFail(w) \/ MirrorError(w) \/ Reraise(w)

StreamStep(s) ==
    \/ \E id \in JobIds : OpenStream(s, id)
    \/ Replay(s) \/ Poll(s) \/ ReadResults(s) \/ ReadStatus(s)
    \/ SendComplete(s) \/ Cleanup(s)

Next ==
    \/ Submit
    \/ \E w \in Workers : WorkerStep(w)
    \/ \E s \in Streams : StreamStep(s)
    \/ Tick

\* Translations of every text, streamed over one connection at a time.
MaxSubmits == 2
MaxConns == 1
MaxOpens == 2
Init == Started(Clients(MaxSubmits, MaxConns, MaxOpens, 0, 0, Texts, ExcMessages))

Spec == Init /\ [][Next]_vars

\* The same with never more than one stream request at a time, whatever the
\* number of connections the server can hold: start_processing is then called
\* at most once for a translation.
OneConnection == 1
InitSolo == Started(Clients(MaxSubmits, OneConnection, MaxOpens, 0, 0, Texts,
                            ExcMessages))

SpecSolo == InitSolo /\ [][Next]_vars

\* One short translation, several connections at a time.
PoolOpens == 2
InitPool == Started(Clients(1, MaxStreams, PoolOpens, 0, 0, {TextB}, {"boom"}))

SpecPool == InitPool /\ [][Next]_vars

\* One short translation, several connections at a time, streams opened
\* again after it completed.
ReplayOpens == 4
InitReplay == Started(Clients(1, MaxStreams, ReplayOpens, 0, 0, {TextB}, {"boom"}))

SpecReplay == InitReplay /\ [][Next]_vars

\* One short translation, with the administrator's deletions and restarts
\* of the server.
InitOps == Started(Clients(1, MaxConns, MaxOpens, MaxDeletes, MaxRestarts,
                           {TextB}, {"boom"}))

NextOps == Next \/ Delete \/ Restart

SpecOps == InitOps /\ [][NextOps]_vars

\* One text, one connection, and a shutdown of the pool at any moment.
InitDown == Started(Clients(1, MaxConns, MaxOpens, 0, 0, {TextB}, {"boom"}))
NextDown == Next \/ Shutdown
SpecDown == InitDown /\ [][NextDown]_vars

\* One text, one connection, and a database that may fail once.
MaxFaults == 1
InitFault == Started(Faulty(Clients(1, MaxConns, MaxOpens, 0, 0, {TextB}, {"boom"}),
                            MaxFaults))
SpecFault == InitFault /\ [][Next]_vars

\* A pool of one thread (JOB_QUEUE_WORKERS = 1), two jobs and two connections:
\* executions wait in the queue while the thread is busy.
OneWorker == 1
InitOne == StartedWith(Clients(MaxJobs, MaxStreams, PoolOpens, 0, 0, {TextB}, {"boom"}),
                       OneWorker)
SpecOne == InitOne /\ [][Next]_vars

\* Threads and coroutines that can take a step eventually take one.
Fairness ==
    /\ \A w \in Workers : WF_vars(WorkerStep(w))
    /\ \A s \in Streams : WF_vars(StreamStep(s))
    /\ WF_vars(Tick)

LiveOps == SpecOps /\ Fairness
LiveDown == SpecDown /\ Fairness
LiveOne == SpecOne /\ Fairness
LiveFault == SpecFault /\ Fairness

\* The pool's threads alone: each thread that can take a step eventually
\* takes one, and time passes while a thread sleeps.
PoolFairness ==
    /\ \A w \in Workers : WF_vars(WorkerStep(w))
    /\ WF_vars(Tick)

LivePool == SpecPool /\ PoolFairness

\* ------------------------------------------------------------------- claims
\* C1: the values wait() assigns to _last_request, by whatever threads in
\* whatever interleaving, lie at least min_delay apart, and one thread at a
\* time is inside wait(): of two workers that call it together, one waits
\* for the lock while the other sleeps.
RateLimiterSpacing ==
    /\ rl.gap >= MinDelay
    /\ Cardinality({w \in Workers : worker[w].pc = "sleeping"}) <= 1
    /\ \A w \in Workers : worker[w].pc = "sleeping" <=> rl.lock = w

\* C1, its case: a worker sleeps inside wait() while another one has called
\* wait() and stands before the lock.
TwoWorkersInWait ==
    \E w, v \in Workers :
        /\ w # v
        /\ worker[w].pc = "sleeping" /\ rl.sleep > 0
        /\ worker[v].pc = "wait"

\* C2: of every stored translation, full_translation is non-null iff the
\* status is completed, and error_message is non-null iff it is failed.
PersistedRecordInvariant ==
    \A id \in JobIds :
        LET row == translations[id] IN
        row # NoJob =>
            /\ row.full_translation # NULL <=> row.status = "completed"
            /\ row.error_message # NULL <=> row.status = "failed"

\* C3: every change of a stored status is pending -> processing,
\* processing -> completed or processing -> failed.
StatusTransitions ==
    [][\A id \in JobIds :
         (/\ translations[id] # NoJob
          /\ translations'[id] # NoJob
          /\ translations'[id].status # translations[id].status)
         => <<translations[id].status, translations'[id].status>> \in
              {<<"pending", "processing">>, <<"processing", "completed">>,
               <<"processing", "failed">>}]_vars

\* C4: a submission returns an id no earlier submission returned, and leaves
\* the stored translation pending and the progress entry of that id with
\* status pending, current 0, total 0 and no results.
SubmitStep == budget'.submits < budget.submits

SubmitReturnsFreshPending ==
    [][SubmitStep =>
         \E id \in JobIds \ used :
            /\ used' = used \cup {id}
            /\ get_translation(translations', id) # NoJob
            /\ get_translation(translations', id).status = "pending"
            /\ get_progress(translation_progress', id) # NoEntry
            /\ get_progress(translation_progress', id).status = "pending"
            /\ get_progress(translation_progress', id).current = 0
            /\ get_progress(translation_progress', id).total = 0
            /\ get_progress(translation_progress', id).results = <<>>]_vars

\* C4, its case: a second submission has returned, its translation pending
\* with a fresh entry, after the first one's.
SecondSubmitReturned ==
    /\ used = JobIds
    /\ \E id \in used :
         /\ translations[id] # NoJob /\ translations[id].status = "pending"
         /\ translation_progress[id] = InitialEntry

\* C5: a submission does no translation work: the rate limiter, the pool's
\* threads and its queue stay as they are, no paragraph or segment is
\* stored, and the rows and progress entries of every other id are unchanged.
SubmitFrame ==
    [][SubmitStep =>
         /\ rl' = rl
         /\ worker' = worker
         /\ executor' = executor
         /\ paragraphs' = paragraphs
         /\ segments' = segments
         /\ \A id \in JobIds \ (used' \ used) :
              /\ translations'[id] = translations[id]
              /\ translation_progress'[id] = translation_progress[id]]_vars

\* C5, its case: a translation submitted and not started while a worker is
\* inside wait() for another translation.
SubmittedBesideWork ==
    \E id \in used : \E w \in Workers :
        /\ translations[id] # NoJob /\ translations[id].status = "pending"
        /\ translation_progress[id] = InitialEntry
        /\ worker[w].pc = "sleeping" /\ worker[w].job # id

\* C6: whatever streams are opened on a translation, at most one execution
\* of _process_translation for it is queued or running.
Executions(id) ==
    Cardinality({i \in 1..Len(executor) : executor[i] = id})
    + Cardinality({w \in Workers : worker[w].pc # "idle" /\ worker[w].job = id})

ProcessingTriggeredOnce == \A id \in JobIds : Executions(id) <= 1

\* C7: no two stored segments of a translation have the same
\* (paragraph_idx, seg_idx), and no two stored paragraphs the same
\* paragraph_idx.
NoDuplicateRows ==
    /\ \A i, k \in 1..Len(segments) :
         RowKey(segments[i]) = RowKey(segments[k]) => i = k
    /\ \A i, k \in 1..Len(paragraphs) :
         RowKey(paragraphs[i]) = RowKey(paragraphs[k]) => i = k

\* C8: when the translate call raised on a segment, then at the time the
\* exception leaves the worker the stored translation is failed with a
\* non-empty error_message, the segments saved before it and all the
\* paragraphs are stored, and the progress entry is failed.
HasSegment(id, item) ==
    \E i \in 1..Len(segments) :
        RowKey(segments[i]) = <<id, item.paragraph_idx, item.seg_idx>>

HasParagraph(id, idx) ==
    \E i \in 1..Len(paragraphs) : RowKey(paragraphs[i]) = <<id, idx, 0>>

TranslateFailureRecorded ==
    \A w \in Workers :
        LET wr == worker[w]
            row == translations[wr.job]
            entry == translation_progress[wr.job]
            order == LoopOrder(wr.segs, 0) IN
        (wr.pc = "raise" /\ wr.ret = "translate") =>
            /\ row # NoJob
            /\ row.status = "failed"
            /\ row.error_message \notin {NULL, ""}
            /\ \A i \in 1..wr.g : HasSegment(wr.job, order[i])
            /\ \A p \in 1..Len(wr.segs) : HasParagraph(wr.job, p - 1)
            /\ entry # NoEntry => entry.status = "failed"

\* C9: when an exception is about to leave _process_translation, the stored
\* status of its translation is failed and so is the status of its progress
\* entry, if it has one.
FailureVisibleBeforeRaise ==
    \A w \in Workers :
        LET row == translations[worker[w].job]
            entry == translation_progress[worker[w].job] IN
        worker[w].pc = "raise" =>
            /\ row # NoJob => row.status = "failed"
            /\ entry # NoEntry => entry.status = "failed"

\* C10: every stream that was opened ends: its generator returns after a
\* terminal event, or the server it ran on is gone.
StreamsEnd ==
    \A s \in Streams :
        (~ FreeStream(s)) ~> (stream[s].pc \in {"done", "closed"})

\* C11: a polled stream that has sent its complete event has sent, before
\* it, one progress event for every result the worker appended to the entry,
\* in the order of the appends and with current = 1, 2, ..., total.
IsProgress(event) == event.type = "progress"
ProgressEvents(s) == SelectSeq(stream[s].events, IsProgress)

LastEvent(s) == stream[s].events[Len(stream[s].events)]

SentComplete(s) ==
    /\ stream[s].pc = "cleanup"
    /\ stream[s].events # <<>>
    /\ LastEvent(s).type = "complete"

LiveStreamEmitsEveryResult ==
    \A s \in Streams :
        LET entry == translation_progress[stream[s].job]
            sent == ProgressEvents(s) IN
        (SentComplete(s) /\ entry # NoEntry) =>
            /\ Len(sent) = Len(entry.results)
            /\ Len(sent) = entry.total
            /\ \A i \in 1..Len(sent) :
                 /\ sent[i].current = i
                 /\ i <= Len(entry.results) =>
                      /\ sent[i].result.index = entry.results[i].global_idx
                      /\ sent[i].result.segment = entry.results[i].segment

\* C12: a stream opened on a completed translation sends one start event,
\* then one progress event per stored segment in (paragraph_idx, seg_idx)
\* order with current = 1, ..., N and index = current - 1, then one complete
\* event, and hands nothing to the pool.
ReplayStep(s) == stream[s].pc = "replay" /\ stream'[s].pc = "done"
OpenOnCompleted(s) == FreeStream(s) /\ stream'[s].pc = "replay"

CompletedReplay ==
    [][\A s \in Streams :
         /\ OpenOnCompleted(s) => executor' = executor
         /\ (ReplayStep(s) /\ translations[stream[s].job] # NoJob) =>
              LET rows == RowsOf(segments, stream[s].job)
                  N == Len(rows)
                  ev == stream'[s].events IN
              /\ Len(ev) = N + 2
              /\ ev[1].type = "start" /\ ev[1].total = N
              /\ ev[N + 2].type = "complete"
              /\ \A i \in 1..N :
                   /\ ev[i + 1].type = "progress"
                   /\ ev[i + 1].current = i
                   /\ ev[i + 1].result.index = i - 1
                   /\ ev[i + 1].result.segment = rows[i].segment_text
                   /\ ev[i + 1].result.pinyin = rows[i].pinyin
                   /\ ev[i + 1].result.english = rows[i].english
                   /\ i < N => ~ KeyBefore(RowKey(rows[i + 1]), RowKey(rows[i]))]_vars

\* C12, its case: the replay of a completed translation of three segments
\* has ended.
IsReplay(events) ==
    /\ events # <<>>
    /\ events[1].type = "start"
    /\ "fullTranslation" \in DOMAIN events[1]

ReplayedThreeSegments ==
    \E s \in Streams :
        /\ stream[s].pc = "done"
        /\ IsReplay(stream[s].events)
        /\ Len(stream[s].events) = 5
        /\ stream[s].events[5].type = "complete"

\* C13: two streams opened on a completed translation send the same events,
\* and neither the opening nor the replay hands anything to the pool or
\* changes the stored translation, its paragraphs, its segments or the
\* progress table.
SameReplay(s, t) ==
    (/\ stream[s].pc = "done" /\ IsReplay(stream[s].events)
     /\ stream[t].pc = "done" /\ IsReplay(stream[t].events)
     /\ stream[s].job = stream[t].job)
    => stream[s].events = stream[t].events

ReplayTwiceIdentical ==
    /\ [](\A s, t \in Streams : SameReplay(s, t))
    /\ [][\A s \in Streams :
            (OpenOnCompleted(s) \/ ReplayStep(s)) =>
                /\ executor' = executor
                /\ translations' = translations
                /\ paragraphs' = paragraphs
                /\ segments' = segments
                /\ translation_progress' = translation_progress]_vars

\* C14: the progress events a stream sent while the translation was
\* processed, up to its complete event, are the progress events a replay of
\* the stored segments sends.
ReplayOfStored(id) ==
    LET result == get_translation_with_results(translations, paragraphs,
                                               segments, id) IN
    ReplayProgress(result.paragraphs, 0, 0, total_translations(result.paragraphs))

LiveEqualsReplay ==
    \A s \in Streams :
        (SentComplete(s) /\ translations[stream[s].job] # NoJob) =>
            ProgressEvents(s) = ReplayOfStored(stream[s].job)

\* C15: a stream opened on a failed translation sends one error event and
\* ends, and hands nothing to the pool; no step hands a translation to the
\* pool unless its stored status is pending.
Opened(s) == budget'.opens < budget.opens /\ stream'[s] # stream[s]

Queued(queue, id) == Cardinality({i \in 1..Len(queue) : queue[i] = id})

ErrorEventsHaveMessage ==
    \A s \in Streams : \A i \in 1..Len(stream[s].events) :
        stream[s].events[i].type = "error" =>
            stream[s].events[i].message \notin {"", NULL}

\* C17: a stream opened on an id that has no stored translation sends one
\* error event (not found) and ends; nothing is handed to the pool, and no
\* row and no progress entry is created.
UnknownIdNotFound ==
    [][\A s \in Streams :
         (Opened(s) /\ translations[stream'[s].job] = NoJob) =>
             /\ stream'[s].pc = "done"
             /\ stream'[s].events = <<ErrorEvent("Translation not found")>>
             /\ executor' = executor
             /\ translations' = translations
             /\ translation_progress' = translation_progress]_vars

\* C17, its case: a stream opened on an id no submission returned has ended.
OpenedOnUnknownId ==
    \E s \in Streams :
        /\ stream[s].pc = "done"
        /\ stream[s].job \in JobIds \ used
        /\ stream[s].events = <<ErrorEvent("Translation not found")>>

\* C18: for a segment should_skip_segment reports skippable the worker
\* neither calls wait() nor the translator, and the stored segment and the
\* appended result both have empty pinyin and english.
SkippableUntranslated ==
    /\ \A i \in 1..Len(segments) :
         should_skip_segment(segments[i].segment_text) =>
             segments[i].pinyin = "" /\ segments[i].english = ""
    /\ \A id \in JobIds :
         translation_progress[id] # NoEntry =>
             \A i \in 1..Len(translation_progress[id].results) :
                 LET result == translation_progress[id].results[i] IN
                 should_skip_segment(result.segment) =>
                     result.pinyin = "" /\ result.english = ""
    /\ \A w \in Workers :
         (worker[w].pc \in {"wait", "sleeping"} /\ worker[w].ret = "translate") =>
             ~ should_skip_segment(
                   LoopOrder(worker[w].segs, 0)[worker[w].g + 1].segment)

\* C18, its case: a skippable segment is stored and appended to the entry,
\* after a translated one.
SkippableSegmentSaved ==
    \E id \in JobIds :
        /\ translation_progress[id] # NoEntry
        /\ \E i \in 1..Len(translation_progress[id].results) :
             should_skip_segment(translation_progress[id].results[i].segment)
        /\ \E i, k \in 1..Len(segments) :
             /\ segments[i].translation_id = id
             /\ segments[k].translation_id = id
             /\ should_skip_segment(segments[i].segment_text)
             /\ segments[k].english = "gloss"

\* C19: an execution that reaches its end has called the translator as many
\* times as the segmenter returned segments that are not skippable.
Translatable(order) ==
    Cardinality({i \in 1..Len(order) : ~ should_skip_segment(order[i].segment)})

TranslateCallsCounted ==
    \A w \in Workers :
        worker[w].pc \in {"complete", "mirror_complete"} =>
            worker[w].translated = Translatable(LoopOrder(worker[w].segs, 0))

\* C19, its case: an execution over segments meaningful, skippable,
\* meaningful ends after two calls of the translator.
TwoOfThreeTranslated ==
    \E w \in Workers :
        /\ worker[w].pc = "mirror_complete"
        /\ Len(LoopOrder(worker[w].segs, 0)) = 3
        /\ worker[w].translated = 2

\* C20: of every progress entry, as the holders of the manager's lock see
\* it: current is the length of results; once total is published it is the
\* sum of the paragraphs' segment counts and current <= total; and when the
\* status is completed, current = total = the number of stored segments.
SegmentCount(text) ==
    total_segments([p \in 1..Len(text) |-> Segmenter(text[p].content)])

ProgressEntryInvariant ==
    \A id \in JobIds :
        LET entry == translation_progress[id]
            row == translations[id] IN
        (entry # NoEntry /\ row # NoJob /\ ManagerLockFree) =>
            /\ entry.current = Len(entry.results)
            /\ entry.total > 0 =>
                 /\ entry.current <= entry.total
                 /\ entry.total = SegmentCount(split_into_paragraphs(row.input_text))
            /\ entry.status = "completed" =>
                 /\ entry.current = entry.total
                 /\ entry.total = Len(RowsOf(segments, id))


\* C21: every persisted segment row has a persisted paragraph row with its
\* translation_id and paragraph_idx, so the Paragraph record of a paragraph
\* is persisted before any Segment record of that paragraph.
ParagraphBeforeItsSegments ==
    \A i \in 1..Len(segments) :
        HasParagraph(segments[i].translation_id, segments[i].paragraph_idx)

\* C21 witness: a segment of the second paragraph of a job is persisted.
SecondParagraphSegmentSaved ==
    \E i \in 1..Len(segments) :
        /\ segments[i].paragraph_idx = 1
        /\ HasParagraph(segments[i].translation_id, 1)


PositionOf(id, item) == <<id, item.paragraph_idx, item.seg_idx>>

\* the results of an entry lie in strictly increasing (paragraph_idx, seg_idx)
\* order and the k-th of them, counted from 0, has global_idx = k
ResultsInOrder(entry) ==
    \A k \in 1..Len(entry.results) :
        /\ entry.results[k].global_idx = k - 1
        /\ k > 1 => KeyBefore(PositionOf(0, entry.results[k - 1]),
                              PositionOf(0, entry.results[k]))

\* a step that stores a segment row stores it at a position after the
\* positions of all segment rows the job has
SegmentSavedInOrder ==
    Len(segments') > Len(segments) =>
        \E w \in Workers :
            /\ worker[w].pc = "save_seg"
            /\ worker'[w].pc = "progress"
            /\ LET item == LoopOrder(worker[w].segs, 0)[worker[w].g + 1] IN
               \A i \in 1..Len(segments) :
                   segments[i].translation_id = worker[w].job =>
                       KeyBefore(RowKey(segments[i]), PositionOf(worker[w].job, item))

\* C22: within one job the Segment records are persisted and the
\* SegmentResults are appended in strictly increasing (paragraph_idx, seg_idx)
\* order, and the k-th appended SegmentResult has global_idx = k.
SegmentsInIncreasingOrder ==
    /\ [](\A id \in JobIds :
            translation_progress[id] # NoEntry => ResultsInOrder(translation_progress[id]))
    /\ [][SegmentSavedInOrder]_vars


\* the paragraph rows of a job read in index order, as (indent, separator)
StoredParagraphs(id) ==
    LET prows == RowsOf(paragraphs, id) IN
    [i \in 1..Len(prows) |->
        [paragraph_idx |-> prows[i].paragraph_idx, indent |-> prows[i].indent,
         separator |-> prows[i].separator]]

\* the segment rows of a job read in (paragraph_idx, seg_idx) order
StoredSegments(id) ==
    LET srows == RowsOf(segments, id) IN
    [i \in 1..Len(srows) |->
        [paragraph_idx |-> srows[i].paragraph_idx, seg_idx |-> srows[i].seg_idx,
         segment |-> srows[i].segment_text]]

\* the paragraphs of an input text, and the segmenter's output per paragraph
InputParagraphs(text) ==
    LET paras == split_into_paragraphs(text) IN
    [i \in 1..Len(paras) |->
        [paragraph_idx |-> i - 1, indent |-> paras[i].indent,
         separator |-> paras[i].separator]]

SegmenterOutputs(text) ==
    LET paras == split_into_paragraphs(text) IN
    LoopOrder([i \in 1..Len(paras) |-> Segmenter(paras[i].content)], 0)

\* C23: whenever a job's persisted status is completed, its persisted
\* paragraphs are the paragraphs of the input in order and its persisted
\* segments are the concatenation of the segmenter's outputs per paragraph.
CompletedJobStoredExactly ==
    \A id \in JobIds :
        (translations[id] # NoJob /\ translations[id].status = "completed") =>
            /\ StoredParagraphs(id) = InputParagraphs(translations[id].input_text)
            /\ StoredSegments(id) = SegmenterOutputs(translations[id].input_text)


\* a stream between its call of get_progress and its last read of the value
\* the call returned
HoldsProgress(sr) == sr.pc \in {"read", "status"}

\* C24: the value get_progress returned is a snapshot: no step taken while a
\* caller holds it (an update of the worker to the job's entry, for one)
\* changes it.
GetProgressReturnsSnapshot ==
    [][\A s \in Streams :
          (HoldsProgress(stream[s]) /\ HoldsProgress(stream'[s])) =>
              Held(s)' = Held(s)]_vars


\* cleanup_progress applied to a table: the entry is absent afterwards, a
\* second call changes nothing more, a call on an id with no entry changes
\* nothing, and no other entry is altered
CleanupOnce(table, id) ==
    LET once == cleanup_progress(table, id) IN
    /\ once[id] = NoEntry
    /\ cleanup_progress(once, id) = once
    /\ table[id] = NoEntry => once = table
    /\ \A other \in JobIds \ {id} : once[other] = table[other]

\* the step of a stream that calls cleanup_progress
CleanupStep(s) == stream[s].pc = "cleanup" /\ stream'[s].pc = "done"

\* C25: cleanup_progress is idempotent (once, twice, or on an id with no
\* entry: the entry is absent), and a call alters no other job's entry and
\* no persisted record.
CleanupIdempotent ==
    /\ [](\A id \in JobIds : CleanupOnce(translation_progress, id))
    /\ [][\A s \in Streams : CleanupStep(s) =>
            /\ translation_progress'[stream[s].job] = NoEntry
            /\ \A other \in JobIds \ {stream[s].job} :
                   translation_progress'[other] = translation_progress[other]
            /\ <<translations, paragraphs, segments>>' =
                   <<translations, paragraphs, segments>>]_vars

\* C25 witness: a stream has cleaned up after the first job while the second
\* job has an entry.
CleanedUpBesideEntry ==
    \E s \in Streams :
        /\ stream[s].pc = "done"
        /\ stream[s].job = 1
        /\ stream[s].events # <<>>
        /\ LastEvent(s).type = "complete"
        /\ ~ IsReplay(stream[s].events)
        /\ translation_progress[1] = NoEntry
        /\ translation_progress[2] # NoEntry


\* a stream that has finished and whose last event was the complete event
FinishedComplete(sr) ==
    /\ sr.pc = "done"
    /\ sr.events # <<>>
    /\ sr.events[Len(sr.events)].type = "complete"

\* C26: after a stream that emitted a complete event has finished, the job's
\* progress entry is absent, and the entry is removed only by a stream that
\* has emitted its complete event.
CompleteThenEntryAbsent ==
    /\ [](\A s \in Streams :
            FinishedComplete(stream[s]) => translation_progress[stream[s].job] = NoEntry)
    /\ [][\A s \in Streams :
            (CleanupStep(s) /\ translation_progress[stream[s].job] # NoEntry) =>
                /\ stream[s].events # <<>>
                /\ LastEvent(s).type = "complete"]_vars


\* C27: after shutdown(wait = false) an execution that is queued and that no
\* worker has begun is never run: no worker takes it from the queue and the
\* row of its job is never written.
QueuedNeverRunAfterShutdown ==
    [][pool.shutdown =>
         /\ executor' = executor
         /\ \A id \in JobIds :
                Queued(executor, id) > 0 => translations'[id] = translations[id]]_vars


\* C27, as the code has it: shutdown(wait = false) leaves the queued
\* executions in the queue and only refuses new ones; under fair scheduling
\* an execution that was queued when the pool was shut down is still taken
\* by a worker, which marks its job processing.
QueuedStillRunAfterShutdown ==
    /\ [][(~ pool.shutdown /\ pool'.shutdown) => executor' = executor]_vars
    /\ [][pool.shutdown => Len(executor') <= Len(executor)]_vars
    /\ \A n \in 1..MaxStreams :
           (pool.shutdown /\ Len(executor) = n) ~> (Len(executor) < n)
    /\ \A id \in JobIds :
           (pool.shutdown /\ Queued(executor, id) > 0) ~>
               (translations[id].status # "pending")

\* C27 witness: the pool is shut down while an execution is queued that no
\* worker has begun.
ShutdownWithQueuedExecution ==
    /\ pool.shutdown
    /\ executor # <<>>
    /\ \A w \in Workers : worker[w].pc = "idle"


Running == {w \in Workers : worker[w].pc # "idle"}

\* the step of a stream request that calls start_processing(id)
StartsProcessing(s) ==
    /\ budget'.opens < budget.opens
    /\ stream'[s] # stream[s]
    /\ ShouldStart(get_translation(translations, stream'[s].job))

\* C28: at most max_workers executions run at any time; start_processing
\* queues the execution whatever the workers are doing (it neither rejects
\* nor waits), and under fair scheduling every queued execution is started.
PoolBoundedAndQueueing ==
    /\ [](Cardinality(Running) <= pool.max_workers)
    /\ [][\A s \in Streams :
            StartsProcessing(s) => executor' = Append(executor, stream'[s].job)]_vars
    /\ \A n \in 1..MaxStreams : (Len(executor) = n) ~> (Len(executor) < n)

\* C28 witness: every thread of the pool is busy, an execution of another job
\* is queued, and its stream is polling.
QueuedWhileAllBusy ==
    /\ Cardinality(Running) = pool.max_workers
    /\ executor # <<>>
    /\ \A w \in Running : worker[w].job # Head(executor)
    /\ \E s \in Streams : stream[s].job = Head(executor) /\ stream[s].pc = "poll"


Terminal(id) == translations[id] # NoJob /\ translations[id].status \in {"completed", "failed"}

\* an execution is queued or running
PoolAtWork == executor # <<>> \/ \E w \in Workers : worker[w].pc # "idle"

\* the queue is empty, every thread is back from its last wait() and idle,
\* and every job that was taken from the queue is completed or failed
PoolAtRest ==
    /\ executor = <<>>
    /\ \A w \in Workers : worker[w].pc = "idle"
    /\ \A id \in JobIds : translations[id] # NoJob =>
           (translations[id].status = "pending" \/ Terminal(id))

\* C29: under fair scheduling every job for which start_processing was
\* called reaches persisted status completed or failed, whether the calls of
\* the collaborators and of the storage return or raise, and every wait()
\* call returns: whenever an execution is queued or running, the pool comes
\* to rest with every job it took completed or failed.
EveryStartedJobEnds == PoolAtWork ~> PoolAtRest


WaitCall == [call |-> "wait", arg |-> 0]

\* one wait() and one segment call per paragraph, in paragraph order
RECURSIVE SegmentCalls(_, _)
SegmentCalls(p, count) ==
    IF p >= count THEN <<>>
    ELSE <<WaitCall, [call |-> "segment", arg |-> p]>> \o SegmentCalls(p + 1, count)

\* one wait() and one translate call per segment that is not skippable
RECURSIVE TranslateCalls(_, _)
TranslateCalls(order, g) ==
    IF order = <<>> THEN <<>>
    ELSE (IF should_skip_segment(Head(order).segment) THEN <<>>
          ELSE <<WaitCall, [call |-> "translate", arg |-> g]>>)
         \o TranslateCalls(Tail(order), g + 1)

ExpectedCalls(text, segs) ==
    <<WaitCall, [call |-> "full_translate", arg |-> 0]>>
    \o SegmentCalls(0, Len(text))
    \o TranslateCalls(LoopOrder(segs, 0), 0)

Waits(calls) == LET IsWait(c) == c.call = "wait" IN Len(SelectSeq(calls, IsWait))

AlwaysConstruct(manager) == TRUE

\* if _queue_manager is None: the check made under the lock
IsNone(manager) == manager = NoManager

\* get_queue_manager is called; the first check, made without the lock.
FirstCheck(t) ==
    LET c == singleton.caller[t] IN
    /\ c.pc = "idle"
    /\ c.calls > 0
    /\ singleton' = [singleton EXCEPT !.caller[t] =
         [c EXCEPT !.calls = c.calls - 1,
                   !.pc = IF singleton.queue_manager = NoManager THEN "acquire"
                          ELSE "return"]]
    /\ UNCHANGED <<translations, paragraphs, segments, used,
                   translation_progress, executor, pool, worker, rl, stream, budget>>

\* with _queue_manager_lock: the thread waits until the lock is free.
AcquireLock(t) ==
    /\ singleton.caller[t].pc = "acquire"
    /\ singleton.queue_manager_lock = NoLock
    /\ singleton' = [singleton EXCEPT !.queue_manager_lock = t,
                                      !.caller[t].pc = "locked"]
    /\ UNCHANGED <<translations, paragraphs, segments, used,
                   translation_progress, executor, pool, worker, rl, stream, budget>>

\* the second check, made under the lock
SecondCheck(t) ==
    /\ singleton.caller[t].pc = "locked"
    /\ singleton' = [singleton EXCEPT !.caller[t].pc =
         IF IsNone(singleton.queue_manager) THEN "construct" ELSE "release"]
    /\ UNCHANGED <<translations, paragraphs, segments, used,
                   translation_progress, executor, pool, worker, rl, stream, budget>>

\* _queue_manager = TranslationQueueManager(): a new pool, a new rate limiter
\* and a new, empty progress table take the place of what was there.
Construct(t) ==
    /\ singleton.caller[t].pc = "construct"
    /\ singleton' = [singleton EXCEPT !.constructed = @ + 1,
                                      !.queue_manager = singleton.constructed + 1,
                                      !.caller[t].built = @ + 1,
                                      !.caller[t].pc = "release"]
    /\ executor' = <<>>
    /\ pool' = NewPool(NumWorkers)
    /\ rl' = InitialLimiter
    /\ translation_progress' = [j \in JobIds |-> NoEntry]
    /\ UNCHANGED <<translations, paragraphs, segments, used, worker, stream, budget>>

\* the with block ends: the lock is released.
ReleaseLock(t) ==
    /\ singleton.caller[t].pc = "release"
    /\ singleton' = [singleton EXCEPT !.queue_manager_lock = NoLock,
                                      !.caller[t].pc = "return"]
    /\ UNCHANGED <<translations, paragraphs, segments, used,
                   translation_progress, executor, pool, worker, rl, stream, budget>>

\* return _queue_manager
Return(t) ==
    /\ singleton.caller[t].pc = "return"
    /\ singleton' = [singleton EXCEPT
         !.caller[t].returned = @ \cup {singleton.queue_manager},
         !.caller[t].pc = "idle"]
    /\ UNCHANGED <<translations, paragraphs, segments, used,
                   translation_progress, executor, pool, worker, rl, stream, budget>>

get_queue_manager(t) ==
    \/ FirstCheck(t) \/ AcquireLock(t) \/ SecondCheck(t)
    \/ Construct(t) \/ ReleaseLock(t) \/ Return(t)

\* The process after the import of app.queue: no manager yet; the threads of
\* the server call get_queue_manager, in any interleaving.
InitSingleton ==
    /\ translations = [j \in JobIds |-> NoJob]
    /\ paragraphs = <<>>
    /\ segments = <<>>
    /\ used = {}
    /\ translation_progress = [j \in JobIds |-> NoEntry]
    /\ executor = <<>>
    /\ pool = NewPool(NumWorkers)
    /\ worker = [w \in Workers |-> IdleWorker]
    /\ rl = InitialLimiter
    /\ stream = [s \in Streams |-> IdleStream]
    /\ budget = Clients(0, 0, 0, 0, 0, {}, {})
    /\ singleton = Imported

NextSingleton == \E t \in Callers : get_queue_manager(t)

SpecSingleton == InitSingleton /\ [][NextSingleton]_vars

\* ------------------------------------- specification for the paragraph split
\* One job whose text is any non-blank text of up to MaxLen characters (the
\* submit route answers 400 to a blank input_text), one stream on it.
MaxLen == 4
Chars == {"han", Space, Newline}
SplitTexts ==
    {text \in UNION {[1..n -> Chars] : n \in 1..MaxLen} : strip(text) # <<>>}

InitSplit == Started(Clients(1, MaxConns, MaxOpens, 0, 0, SplitTexts, {"boom"}))

SpecSplit == InitSplit /\ [][Next]_vars

\* sum of segment_count over the paragraphs array of a start event
RECURSIVE SegmentCountSum(_)
SegmentCountSum(infos) ==
    IF infos = <<>> THEN 0
    ELSE Head(infos).segment_count + SegmentCountSum(Tail(infos))

\* C31: in every start event a stream has emitted, on the replay path and on
\* the live path, total is the sum of segment_count over the event's
\* paragraphs array, and the array has one entry per paragraph of the job.
StartEventConsistent ==
    \A s \in Streams : \A i \in 1..Len(stream[s].events) :
        LET event == stream[s].events[i]
            row == translations[stream[s].job] IN
        (event.type = "start" /\ row # NoJob) =>
            /\ event.total = SegmentCountSum(event.paragraphs)
            /\ Len(event.paragraphs) = Len(split_into_paragraphs(row.input_text))


\* the places of the events of one type in a stream's events
EventsOfType(events, type) == {i \in 1..Len(events) : events[i].type = type}

\* C32: every stream that has emitted a complete event has emitted exactly
\* one start event before it, and no stream has emitted a progress event
\* before its start event.
StartBeforeProgressAndComplete ==
    \A s \in Streams :
        LET events == stream[s].events
            starts == EventsOfType(events, "start") IN
        /\ \A c \in EventsOfType(events, "complete") :
               Cardinality({i \in starts : i < c}) = 1
        /\ \A p \in EventsOfType(events, "progress") :
               \E i \in starts : i < p


\* the places of a text's characters that are not whitespace
NonSpace(text) == {q \in 1..Len(text) : ~ IsSpace(text[q])}

\* the place of the first non-whitespace character after place q, or the
\* place after the end of the text
NextNonSpace(text, q) ==
    IF \E r \in NonSpace(text) : r > q
    THEN CHOOSE r \in NonSpace(text) :
             /\ r > q
             /\ \A t \in NonSpace(text) : t > q => r <= t
    ELSE Len(text) + 1

\* the number of newline characters strictly between two places of a text
NewlinesBetween(text, a, b) ==
    Cardinality({i \in (a + 1)..(b - 1) : text[i] = Newline})

\* the places where a non-blank line's content ends: the next character that
\* is not whitespace lies on a later line, or there is none
LineEnds(text) ==
    {q \in NonSpace(text) :
        \/ NextNonSpace(text, q) = Len(text) + 1
        \/ NewlinesBetween(text, q, NextNonSpace(text, q)) > 0}

\* the newlines the input has between its k-th non-blank line and the next
\* non-blank line, or the end of the text
NewlinesAfterLine(text, k) ==
    LET q == CHOOSE e \in LineEnds(text) :
                 Cardinality({f \in LineEnds(text) : f < e}) = k - 1 IN
    NewlinesBetween(text, q, NextNonSpace(text, q))

\* C33: for every input text a worker has split, each returned paragraph's
\* separator holds exactly as many newline characters as the input has
\* between that paragraph's line and the next non-blank line, or the end of
\* the text for the last paragraph.
SeparatorsPreserveNewlines ==
    \A w \in Workers :
        (worker[w].text # <<>> /\ translations[worker[w].job] # NoJob) =>
            LET text == translations[worker[w].job].input_text
                paras == worker[w].text IN
            /\ Len(paras) = Cardinality(LineEnds(text))
            /\ \A k \in 1..Len(paras) :
                   /\ \A i \in 1..Len(paras[k].separator) :
                          paras[k].separator[i] = Newline
                   /\ Len(paras[k].separator) = NewlinesAfterLine(text, k)


\* C34: while start_processing is called at most once for a job (one
\* connection), the status of the job's progress entry is never ahead of the
\* persisted status: an entry that shows processing has a row that is
\* processing, completed or failed, and an entry that shows completed (resp.
\* failed) has a row that is completed (resp. failed).
EntryStatusNotAhead ==
    \A id \in JobIds :
        LET entry == translation_progress[id]
            row == translations[id] IN
        (entry # NoEntry /\ row # NoJob /\ Executions(id) <= 1) =>
            /\ entry.status = "processing" =>
                   row.status \in {"processing", "completed", "failed"}
            /\ entry.status = "completed" => row.status = "completed"
            /\ entry.status = "failed" => row.status = "failed"


\* C34, its case: one job has failed and another has completed, and each one's
\* progress entry shows what its row shows.
EntriesShowStoredOutcome ==
    \E id, other \in JobIds :
        /\ translation_progress[id] # NoEntry
        /\ translation_progress[id].status = "failed"
        /\ translations[id].status = "failed"
        /\ translation_progress[other] # NoEntry
        /\ translation_progress[other].status = "completed"
        /\ translations[other].status = "completed"


\* the stored segment rows of a job that agree with a result of its entry
RowsOfResult(id, result) ==
    {i \in 1..Len(segments) :
        /\ segments[i].translation_id = id
        /\ segments[i].paragraph_idx = result.paragraph_idx
        /\ segments[i].seg_idx = result.seg_idx
        /\ segments[i].segment_text = result.segment
        /\ segments[i].pinyin = result.pinyin
        /\ segments[i].english = result.english}

\* C35: each result in a job's progress entry has a stored segment row with
\* the same (paragraph_idx, seg_idx), text, pinyin and english, and the entry
\* never has more results than the job has stored segment rows.
ResultsAlreadyPersisted ==
    \A id \in JobIds :
        LET entry == translation_progress[id] IN
        (entry # NoEntry /\ translations[id] # NoJob) =>
            /\ \A k \in 1..Len(entry.results) :
                   RowsOfResult(id, entry.results[k]) # {}
            /\ Len(entry.results) <= Len(RowsOf(segments, id))

\* C35, its case: a worker has just saved a translated segment that is not
\* yet among the two results of its job's entry.
SegmentSavedNotYetVisible ==
    \E w \in Workers :
        LET id == worker[w].job IN
        /\ worker[w].pc = "progress"
        /\ translation_progress[id] # NoEntry
        /\ Len(translation_progress[id].results) = 2
        /\ Len(RowsOf(segments, id)) = 3
        /\ segments[Len(segments)].pinyin # ""


HoldsLimiterLock(w) == rl.lock = w
HoldsManagerLock(w) == worker[w].pc \in LockedPcs

\* C36: no thread holds the rate limiter's lock and the progress-table lock
\* at the same time; the holder of the progress-table lock can always take
\* its next step (it waits for nothing: not for the limiter's lock, not for
\* a sleep), and that step makes no call of wait(), of a collaborator or of
\* storage: it only assigns to the table.
LocksNeverNested ==
    /\ [](\A w \in Workers : ~ (HoldsLimiterLock(w) /\ HoldsManagerLock(w)))
    /\ [](\A w \in Workers :
             HoldsManagerLock(w) => ENABLED (AppendResult(w) \/ MirrorError(w)))
    /\ [][\A w \in Workers :
             (HoldsManagerLock(w) /\ worker'[w] # worker[w]) =>
                 /\ <<translations, paragraphs, segments, used, executor, rl>>' =
                        <<translations, paragraphs, segments, used, executor, rl>>
                 /\ ~ HoldsLimiterLock(w)'
                 /\ worker'[w].calls = worker[w].calls]_vars

\* C36, its case: one worker sleeps in wait() with the limiter's lock while
\* another holds the progress-table lock.
SleepWhileTableLocked ==
    \E w, v \in Workers :
        /\ HoldsLimiterLock(w)
        /\ rl.sleep > 0
        /\ HoldsManagerLock(v)


\* the job of the step a worker takes: the one it executes, or the one it
\* takes from the queue
JobOfStep(w) == IF worker[w].pc = "idle" THEN Head(executor) ELSE worker[w].job

\* C37: a step of a worker executing job A leaves every other job's progress
\* entry, row, paragraph rows and segment rows as they are; and when A has no
\* progress entry the step creates none, while the storage call of the step
\* is made all the same: the paragraph or segment row is inserted, the status
\* completed or failed is written.
WorkerWritesOwnJobOnly ==
    [][\A w \in Workers :
          (worker'[w] # worker[w] /\ (worker[w].pc = "idle" => executor # <<>>)) =>
              LET A == JobOfStep(w) IN
              /\ \A B \in JobIds \ {A} :
                     /\ translation_progress'[B] = translation_progress[B]
                     /\ translations'[B] = translations[B]
                     /\ RowsOf(paragraphs', B) = RowsOf(paragraphs, B)
                     /\ RowsOf(segments', B) = RowsOf(segments, B)
              /\ translation_progress[A] = NoEntry =>
                     /\ translation_progress'[A] = NoEntry
                     /\ worker[w].pc = "idle" => translations'[A].status = "processing"
                     /\ worker[w].pc = "save_para" =>
                            Len(RowsOf(paragraphs', A)) = Len(RowsOf(paragraphs, A)) + 1
                     /\ worker[w].pc = "save_seg" =>
                            Len(RowsOf(segments', A)) = Len(RowsOf(segments, A)) + 1
                     /\ worker[w].pc = "complete" =>
                            translations'[A].status = "completed"
                     /\ worker[w].pc = "fail" =>
                            translations'[A].status = "failed"]_vars

\* C37, its case: a worker has run a job to its end while the job had no
\* progress entry and another job had one: the job is stored as completed
\* with its rows, and no entry was made.
FinishedWithoutEntry ==
    \E w \in Workers : \E B \in JobIds :
        LET A == worker[w].job IN
        /\ worker[w].pc = "mirror_complete"
        /\ B # A
        /\ translation_progress[A] = NoEntry
        /\ translation_progress[B] = InitialEntry
        /\ translations[A].status = "completed"
        /\ Len(RowsOf(segments, A)) >= 1


\* the step in which a stream sends an error event
SendsError(s) ==
    /\ Len(stream'[s].events) > Len(stream[s].events)
    /\ stream'[s].events[Len(stream'[s].events)].type = "error"

\* C38: the step in which a stream sends an error event leaves the progress
\* table unchanged; a stream removes an entry only in the step after its
\* complete event on the polling path; and the entry of a job whose stored
\* status is failed is removed by no step of a stream.
ErrorStreamKeepsEntry ==
    [][/\ \A s \in Streams :
            SendsError(s) => translation_progress' = translation_progress
       /\ (stream' # stream /\ translation_progress' # translation_progress) =>
            \E s \in Streams :
                /\ CleanupStep(s)
                /\ LastEvent(s).type = "complete"
                /\ ~ IsReplay(stream[s].events)
       /\ \A id \in JobIds :
            (translations[id].status = "failed"
                /\ translation_progress[id] # NoEntry
                /\ \E s \in Streams : stream'[s] # stream[s]) =>
                    translation_progress'[id] = translation_progress[id]]_vars


\* C39: however the calls of get_queue_manager interleave, at most one
\* TranslationQueueManager is ever constructed, _queue_manager is never
\* assigned a second one, and every call returns that one manager.
OneManagerEver ==
    /\ singleton.constructed <= 1
    /\ singleton.queue_manager \in {NoManager, 1}
    /\ \A t \in Callers : singleton.caller[t].returned \subseteq {1}

\* C39, its case: two first calls at once: a thread passed the first check
\* while there was no manager, waited for the lock and found the manager
\* another thread had constructed, and a call has returned that manager.
SecondCheckFoundManager ==
    \E t, u \in Callers :
        /\ t # u
        /\ singleton.caller[t].pc = "release"
        /\ singleton.caller[t].built = 0
        /\ singleton.constructed = 1
        /\ singleton.caller[u].built = 1
        /\ singleton.caller[u].returned = {1}

====
